---- MODULE Spec2Model ----
(***************************************************************************)
(* A model of MapManager (src/server/game/Maps/MapManager.cpp): the base   *)
(* map registry (CreateBaseMap, CreateBaseMap_i, CreateMap, FindMap), the  *)
(* instance id allocator (InitInstanceIds, RegisterInstanceId,             *)
(* GenerateInstanceId, FreeInstanceId), the map update scheduler (Update)  *)
(* and the admission procedure (PlayerCannotEnter).                        *)
(*                                                                         *)
(* Each component has a specification of its own (SpecAlloc, SpecReg,      *)
(* SpecSched, SpecAdm) over the one set of variables; a component's        *)
(* specification leaves the other components' variables at their initial   *)
(* values.                                                                 *)
(***************************************************************************)
EXTENDS Integers, Sequences, FiniteSets, TLC

VARIABLES
    \* ---- instance id allocator
    nextInstanceId,     \* MapManager::_nextInstanceId (uint32)
    freeInstanceIds,    \* MapManager::_freeInstanceIds: bit i is freeInstanceIds[i], i in 0..size-1
    allocState,         \* "uninit" | "ready" | "asserted" (ASSERT aborted the process) | "stopped" (World::StopNow)
    allocLast,          \* history: the last allocator call, [op, id, ret]
    allocRun,           \* history: the ids returned by GenerateInstanceId since the last FreeInstanceId
    freedEver,          \* history: FreeInstanceId has been called since InitInstanceIds
    allocHist,          \* history: [onUsed, replay], see NoHist
    \* ---- map registry
    i_maps,             \* MapManager::i_maps: map id -> the registered object (NoMap: no entry)
    objs,               \* every Map object ever constructed: objs[k] = [id, instanced, children, insts]
    mapsLock,           \* MapManager::_mapsLock: the caller holding it, or NoCaller
    thr,                \* per caller: the call in progress or last completed (pc, op,
                        \* arguments, the two recursion stacks, the result)
    \* ---- update scheduler
    timerCurrent,       \* i_timer: the elapsed time the interval timer holds
    updaterActive,      \* m_updater.activated(): a worker pool runs the primary updates
    schedPc,            \* where Update is: "idle" | "primary" | "wait" | "delayed"
    loopStart,          \* the registry keys present when the current loop over i_maps began
    visited,            \* the registry keys the current loop has visited
    pendingUpd,         \* m_updater: the objects whose scheduled Update has not returned
    primSet,            \* history: the objects whose Update has returned in this pass
    delSet,             \* history: the objects given DelayedUpdate in this pass
    accum,              \* history: the deltas summed since the last pass (or the start)
    updFlip,            \* history: flips at every call of Update
    \* ---- admission
    admIn,              \* the arguments of PlayerCannotEnter and the external state it reads
    admOut              \* the Map::EnterState it returned, or NotEvaluated

allocVars == <<nextInstanceId, freeInstanceIds, allocState, allocLast, allocRun, freedEver,
               allocHist>>

regVars == <<i_maps, objs, mapsLock, thr>>

schedVars == <<timerCurrent, updaterActive, schedPc, loopStart, visited, pendingUpd,
               primSet, delSet, accum, updFlip>>

admVars == <<admIn, admOut>>

vars == <<allocVars, regVars, schedVars, admVars>>

(***************************************************************************)
(* Instance id allocator                                                   *)
(***************************************************************************)

\* the largest value InitInstanceIds reads as MAX(id) from the instance table
MaxHighestUsed == 2

\* GenerateInstanceId is not taken once the table would grow past this size
MaxTableSize == 6

\* n = 0xFFFFFFFF, the largest uint32, compared by halves (16 bits each)
IsUInt32Max(n) == n \div 65536 = 65535 /\ n % 65536 = 65535

\* ++n on a uint32
Incremented(n) == IF IsUInt32Max(n) THEN 0 ELSE n + 1

Min(a, b) == IF a <= b THEN a ELSE b

\* _freeInstanceIds.size()
Size(bits) == Cardinality(DOMAIN bits)

\* _freeInstanceIds.resize(n, true) on the empty table of the constructor
Resized(n) == [i \in 0 .. (n - 1) |-> TRUE]

\* _freeInstanceIds.push_back(true)
PushBack(bits) == [i \in 0 .. Size(bits) |-> IF i < Size(bits) THEN bits[i] ELSE TRUE]

NPos == -1

\* boost::dynamic_bitset::find_next(pos): the lowest index above pos whose bit is set, or npos
FindNext(bits, pos) ==
    LET later == {i \in DOMAIN bits : i > pos /\ bits[i]}
    IN  IF later = {} THEN NPos
        ELSE CHOOSE i \in later : \A j \in later : i <= j

NoOp == [op |-> "none", id |-> 0, ret |-> 0]

\* onUsed: the last call was a GenerateInstanceId that began with the cursor on a
\* slot marked used. replay: every RegisterInstanceId so far came before the first
\* GenerateInstanceId and FreeInstanceId and named an id from 1 to the MAX(id) that
\* InitInstanceIds read
NoHist == [onUsed |-> FALSE, replay |-> TRUE]

AllocInit ==
    /\ nextInstanceId = 0
    /\ freeInstanceIds = Resized(0)
    /\ allocState = "uninit"
    /\ allocLast = NoOp
    /\ allocRun = <<>>
    /\ freedEver = FALSE
    /\ allocHist = NoHist

\* a slip in InitInstanceIds: the table is sized without the extra slot
InitInstanceIds_NoSlack(hasResult, maxId) ==
    /\ allocState = "uninit"
    /\ LET next == 1
           sized == IF hasResult
                    THEN Resized(maxId + 1)
                    ELSE Resized(next + 1)
       IN  /\ nextInstanceId' = next
           /\ freeInstanceIds' = [sized EXCEPT ![0] = FALSE]
    /\ allocState' = "ready"
    /\ allocLast' = [op |-> "Initialize", id |-> 0, ret |-> 0]
    /\ UNCHANGED <<allocRun, freedEver, allocHist>>

\* InitInstanceIds: the query gives a row (hasResult) holding maxId, the MAX(id) of
\* the instance table, or gives no result
InitInstanceIds(hasResult, maxId) ==
    /\ allocState = "uninit"
    /\ LET next == 1
           sized == IF hasResult
                    THEN Resized(maxId + 2)
                    ELSE Resized(next + 1)
       IN  /\ nextInstanceId' = next
           /\ freeInstanceIds' = [sized EXCEPT ![0] = FALSE]
    /\ allocState' = "ready"
    /\ allocLast' = [op |-> "Initialize", id |-> 0, ret |-> 0]
    /\ UNCHANGED <<allocRun, freedEver, allocHist>>

\* a slip in RegisterInstanceId: the cursor is advanced whatever id is registered
RegisterInstanceId_AlwaysAdvance(instanceId) ==
    /\ allocState = "ready"
    /\ instanceId \in DOMAIN freeInstanceIds
    /\ freeInstanceIds' = [freeInstanceIds EXCEPT ![instanceId] = FALSE]
    /\ nextInstanceId' = Incremented(nextInstanceId)
    /\ allocLast' = [op |-> "Reserve", id |-> instanceId, ret |-> 0]
    /\ allocHist' = [onUsed |-> FALSE,
                     replay |-> /\ allocHist.replay
                                /\ allocRun = <<>> /\ ~freedEver
                                /\ instanceId >= 1
                                /\ instanceId <= Size(freeInstanceIds) - 2]
    /\ UNCHANGED <<allocState, allocRun, freedEver>>

\* RegisterInstanceId(instanceId), instanceId an index of the table
RegisterInstanceId(instanceId) ==
    /\ allocState = "ready"
    /\ instanceId \in DOMAIN freeInstanceIds
    /\ freeInstanceIds' = [freeInstanceIds EXCEPT ![instanceId] = FALSE]
    /\ nextInstanceId' = IF nextInstanceId = instanceId
                         THEN Incremented(nextInstanceId)
                         ELSE nextInstanceId
    /\ allocLast' = [op |-> "Reserve", id |-> instanceId, ret |-> 0]
    /\ allocHist' = [onUsed |-> FALSE,
                     replay |-> /\ allocHist.replay
                                /\ allocRun = <<>> /\ ~freedEver
                                /\ instanceId >= 1
                                /\ instanceId <= Size(freeInstanceIds) - 2]
    /\ UNCHANGED <<allocState, allocRun, freedEver>>

\* a slip in the scan: when no free index is left the table is not grown and the
\* cursor stays where it is
Scanned_NoGrowth(bits, cursor) ==
    LET nextFreedId == FindNext(bits, cursor)
    IN  IF nextFreedId = NPos
        THEN [next |-> cursor, bits |-> bits]
        ELSE [next |-> nextFreedId, bits |-> bits]

\* a slip in the scan: the table is grown and the cursor set to the new slot even
\* when a free index is left above the cursor
Scanned_GrowAlways(bits, cursor) ==
    [next |-> Size(bits), bits |-> PushBack(bits)]

\* GenerateInstanceId lines 375-382: the scan for the next free index above cursor in
\* bits, growing the table by one free slot when there is none
Scanned(bits, cursor) ==
    LET nextFreedId == FindNext(bits, cursor)
    IN  IF nextFreedId = NPos
        THEN [next |-> Size(bits), bits |-> PushBack(bits)]
        ELSE [next |-> nextFreedId, bits |-> bits]

\* GenerateInstanceId: the overflow exit, the bounds assertion, then the cursor is
\* handed out and the scan moves it on
GenerateInstanceId ==
    /\ allocState = "ready"
    /\ IF IsUInt32Max(nextInstanceId)
       THEN /\ allocState' = "stopped"
            /\ allocLast' = [op |-> "Allocate", id |-> 0, ret |-> nextInstanceId]
            /\ allocRun' = Append(allocRun, nextInstanceId)
            /\ UNCHANGED <<nextInstanceId, freeInstanceIds, allocHist>>
       ELSE IF ~(nextInstanceId < Size(freeInstanceIds))
       THEN /\ allocState' = "asserted"
            /\ allocLast' = [op |-> "AllocateAborted", id |-> 0, ret |-> 0]
            /\ UNCHANGED <<nextInstanceId, freeInstanceIds, allocRun, allocHist>>
       ELSE LET newInstanceId == nextInstanceId
                marked == [freeInstanceIds EXCEPT ![newInstanceId] = FALSE]
                scan == Scanned(marked, nextInstanceId)
            IN  /\ Size(scan.bits) <= MaxTableSize
                /\ nextInstanceId' = scan.next
                /\ freeInstanceIds' = scan.bits
                /\ allocLast' = [op |-> "Allocate", id |-> 0, ret |-> newInstanceId]
                /\ allocRun' = Append(allocRun, newInstanceId)
                /\ allocHist' = [allocHist EXCEPT !.onUsed = ~freeInstanceIds[newInstanceId]]
                /\ UNCHANGED allocState
    /\ UNCHANGED freedEver

\* a slip in FreeInstanceId: the cursor is not lowered to the freed id
FreeInstanceId_CursorKept(instanceId) ==
    /\ allocState = "ready"
    /\ instanceId \in DOMAIN freeInstanceIds
    /\ nextInstanceId' = nextInstanceId
    /\ freeInstanceIds' = [freeInstanceIds EXCEPT ![instanceId] = TRUE]
    /\ allocLast' = [op |-> "Release", id |-> instanceId, ret |-> 0]
    /\ allocRun' = <<>>
    /\ freedEver' = TRUE
    /\ allocHist' = [allocHist EXCEPT !.onUsed = FALSE]
    /\ UNCHANGED allocState

\* FreeInstanceId(instanceId), instanceId an index of the table
FreeInstanceId(instanceId) ==
    /\ allocState = "ready"
    /\ instanceId \in DOMAIN freeInstanceIds
    /\ nextInstanceId' = Min(instanceId, nextInstanceId)
    /\ freeInstanceIds' = [freeInstanceIds EXCEPT ![instanceId] = TRUE]
    /\ allocLast' = [op |-> "Release", id |-> instanceId, ret |-> 0]
    /\ allocRun' = <<>>
    /\ freedEver' = TRUE
    /\ allocHist' = [allocHist EXCEPT !.onUsed = FALSE]
    /\ UNCHANGED allocState

(***************************************************************************)
(* Map registry                                                            *)
(***************************************************************************)

\* the threads that call into the registry
Callers == {"t1", "t2"}

NoCaller == "none"

\* sMapStore: the map definitions of the model's world.
\*   0  a plain root (a continent)
\*   1  a terrain child of 0, by its ParentMapID
\*   2  a terrain child of 1, by its CosmeticParentMapID
\*   3  an instanceable root: a dungeon
\*   4  an instanceable root: a raid of expansion 1
\*   5  an instanceable root: a dungeon for which no instance template is loaded
\* No other id has an entry.
MapIds == 0 .. 5

\* the ids the callers of the registry ask for
RequestIds == 0 .. 3

NoParent == -1

ParentMapID(id) == IF id = 1 THEN 0 ELSE NoParent

CosmeticParentMapID(id) == IF id = 2 THEN 1 ELSE NoParent

\* MapEntry::Instanceable()
Instanceable(id) == id \in {3, 4, 5}

\* MapEntry::IsDungeon()
IsDungeon(id) == id \in {3, 4, 5}

\* MapEntry::IsRaid()
IsRaid(id) == id = 4

\* MapEntry::Expansion()
Expansion(id) == IF id = 4 THEN 1 ELSE 0

\* sObjectMgr->GetInstanceTemplate(id) is not null
HasInstanceTemplate(id) == id \in {3, 4}

\* InstanceTemplate::Parent: the dungeon 3 is entered from the continent 0, the raid 4
\* from inside the dungeon 3
TemplateParent(id) == IF id = 4 THEN 3 ELSE 0

\* the parent CreateBaseMap recurses to (line 84)
ParentOf(id) ==
    IF ParentMapID(id) # NoParent THEN ParentMapID(id) ELSE CosmeticParentMapID(id)

HasParent(id) == ParentMapID(id) # NoParent \/ CosmeticParentMapID(id) # NoParent

RECURSIVE SeqOfSet(_)
\* the elements of a set of numbers, in increasing order
SeqOfSet(S) ==
    IF S = {} THEN <<>>
    ELSE LET m == CHOOSE x \in S : \A y \in S : x <= y
         IN  <<m>> \o SeqOfSet(S \ {m})

\* _parentMapData[id]: the child terrain maps declared for id
parentMapData(id) == SeqOfSet({c \in MapIds : HasParent(c) /\ ParentOf(c) = id})

\* a null Map*
NoMap == 0

\* a Map*: the base object k, or (inst # 0) the instance inst of the MapInstanced k
BasePtr(k) == [base |-> k, inst |-> 0]

InstPtr(k, n) == [base |-> k, inst |-> n]

NullPtr == BasePtr(NoMap)

\* the instance ids a caller may name, and MapInstanced may hand out
MaxInstanceId == 1

InstanceIds == 1 .. MaxInstanceId

\* a caller between calls ("idle": none made yet; "done": the last call has returned
\* res), or inside CreateBaseMap / CreateMap
Idle == [pc |-> "idle", op |-> "none", id |-> 0, inst |-> 0,
         stack |-> <<>>, frames |-> <<>>, ret |-> NoMap, res |-> NullPtr]

Done(op, id, inst, res) == [Idle EXCEPT !.pc = "done", !.op = op, !.id = id,
                                        !.inst = inst, !.res = res]

RegInit ==
    /\ i_maps = [id \in MapIds |-> NoMap]
    /\ objs = <<>>
    /\ mapsLock = NoCaller
    /\ thr = [t \in Callers |-> Idle]

\* FindBaseMap(id): the lock-free lookup in i_maps
FindBaseMap(id) == i_maps[id]

Top(stack) == stack[Len(stack)]

Pop(stack) == SubSeq(stack, 1, Len(stack) - 1)

\* ASSERT_NOTNULL has aborted the process
Aborted == \E t \in Callers : thr[t].pc = "asserted"

\* caller t stands at pc, in a process that runs
At(t, pc) == thr[t].pc = pc /\ ~Aborted

Free(t) == (At(t, "idle") \/ At(t, "done"))

\* a caller enters CreateBaseMap(id) or CreateMap(id, player, loginInstanceId)
CallCreate(t, op, id, loginInstanceId) ==
    /\ Free(t)
    /\ thr' = [thr EXCEPT ![t] = [Idle EXCEPT !.pc = "find", !.op = op, !.id = id,
                                              !.inst = loginInstanceId, !.stack = <<id>>]]
    /\ UNCHANGED <<i_maps, objs, mapsLock>>

\* a slip in CreateBaseMap: on a miss the parent is not asked for, the map is
\* created under the lock as a root
CreateBaseMap_Find_ChildAsRoot(t) ==
    /\ At(t, "find")
    /\ LET id == Top(thr[t].stack)
           map == FindBaseMap(id)
       IN  thr' = [thr EXCEPT ![t] =
                IF map # NoMap THEN [@ EXCEPT !.pc = "return", !.ret = map]
                ELSE [@ EXCEPT !.pc = "lock"]]
    /\ UNCHANGED <<i_maps, objs, mapsLock>>

\* CreateBaseMap lines 77-90: the lookup; on a miss either the recursive call for
\* the parent or on to the lock
CreateBaseMap_Find(t) ==
    /\ At(t, "find")
    /\ LET id == Top(thr[t].stack)
           map == FindBaseMap(id)
       IN  thr' = [thr EXCEPT ![t] =
                IF map # NoMap THEN [@ EXCEPT !.pc = "return", !.ret = map]
                ELSE IF HasParent(id) THEN [@ EXCEPT !.stack = Append(@, ParentOf(id))]
                ELSE [@ EXCEPT !.pc = "lock"]]
    /\ UNCHANGED <<i_maps, objs, mapsLock>>

\* CreateBaseMap line 91: std::lock_guard on _mapsLock, then the call of CreateBaseMap_i
CreateBaseMap_Lock(t) ==
    /\ At(t, "lock")
    /\ mapsLock = NoCaller
    /\ mapsLock' = t
    /\ thr' = [thr EXCEPT ![t] = [@ EXCEPT !.pc = "create",
                    !.frames = <<[id |-> Top(thr[t].stack), obj |-> NoMap, child |-> 1]>>]]
    /\ UNCHANGED <<i_maps, objs>>

\* CreateBaseMap_i lines 101-109: construct the object and write the registry entry
CreateBaseMap_i_New(t) ==
    /\ At(t, "create")
    /\ LET f == Top(thr[t].frames)
           k == Len(objs) + 1
       IN  /\ f.obj = NoMap
           /\ objs' = Append(objs, [id |-> f.id, instanced |-> Instanceable(f.id),
                                    children |-> <<>>, insts |-> {}])
           /\ i_maps' = [i_maps EXCEPT ![f.id] = k]
           /\ thr' = [thr EXCEPT ![t].frames[Len(thr[t].frames)].obj = k]
    /\ UNCHANGED mapsLock

\* CreateBaseMap_i lines 111-120: the next child's recursive call, or the return:
\* into the caller's AddChildTerrainMap, or out of the lock of CreateBaseMap (line 93)
CreateBaseMap_i_Next(t) ==
    /\ At(t, "create")
    /\ LET fs == thr[t].frames
           f == Top(fs)
           kids == parentMapData(f.id)
       IN  /\ f.obj # NoMap
           /\ IF f.child <= Len(kids)
              THEN /\ thr' = [thr EXCEPT ![t].frames =
                            Append([fs EXCEPT ![Len(fs)].child = f.child + 1],
                                   [id |-> kids[f.child], obj |-> NoMap, child |-> 1])]
                   /\ UNCHANGED <<objs, mapsLock>>
              ELSE IF Len(fs) > 1
              THEN /\ objs' = [objs EXCEPT ![fs[Len(fs) - 1].obj].children = Append(@, f.obj)]
                   /\ thr' = [thr EXCEPT ![t].frames = Pop(fs)]
                   /\ UNCHANGED mapsLock
              ELSE /\ mapsLock' = NoCaller
                   /\ thr' = [thr EXCEPT ![t] = [@ EXCEPT !.pc = "return", !.frames = <<>>,
                                                            !.ret = f.obj]]
                   /\ UNCHANGED objs
    /\ UNCHANGED i_maps

\* CreateBaseMap lines 88 and 95-96: the call for the id on top of the stack returns
\* thr[t].ret, to the recursive caller (line 84), to CreateMap (line 133) or to the
\* caller of the registry
CreateBaseMap_Return(t) ==
    /\ At(t, "return")
    /\ thr' = [thr EXCEPT ![t] =
            IF Len(@.stack) > 1 THEN [@ EXCEPT !.pc = "refind", !.stack = Pop(@)]
            ELSE IF @.op = "CreateMap" THEN [@ EXCEPT !.pc = "route", !.stack = <<>>]
            ELSE Done("CreateBaseMap", @.id, 0, BasePtr(@.ret))]
    /\ UNCHANGED <<i_maps, objs, mapsLock>>

\* CreateBaseMap lines 86-88: after the parent's call, the second lookup of the child
\* and ASSERT_NOTNULL, which aborts the process on a null map
CreateBaseMap_Refind(t) ==
    /\ At(t, "refind")
    /\ LET map == FindBaseMap(Top(thr[t].stack))
       IN  thr' = [thr EXCEPT ![t] =
                IF map = NoMap THEN [@ EXCEPT !.pc = "asserted"]
                ELSE [@ EXCEPT !.pc = "return", !.ret = map]]
    /\ UNCHANGED <<i_maps, objs, mapsLock>>

\* MapInstanced::CreateInstanceForPlayer on the MapInstanced k: the instance of the
\* given id when there is one, else a new instance under an id not in use, or null
CreateInstanceForPlayer(k, loginInstanceId) ==
    IF loginInstanceId # 0 /\ loginInstanceId \in objs[k].insts
    THEN {InstPtr(k, loginInstanceId)}
    ELSE {InstPtr(k, n) : n \in InstanceIds \ objs[k].insts} \cup {NullPtr}

\* a slip in CreateMap: a base map that is not instanceable is the result only when
\* no instance id is asked for
CreateMap_Route_NullOnInstanceId(t) ==
    /\ At(t, "route")
    /\ LET m == thr[t].ret
       IN  \E r \in (IF m # NoMap /\ objs[m].instanced
                      THEN CreateInstanceForPlayer(m, thr[t].inst)
                      ELSE IF thr[t].inst = 0 THEN {BasePtr(m)} ELSE {NullPtr}) :
              /\ thr' = [thr EXCEPT ![t] = Done("CreateMap", @.id, @.inst, r)]
              /\ objs' = IF r.inst # 0
                         THEN [objs EXCEPT ![r.base].insts = @ \cup {r.inst}]
                         ELSE objs
    /\ UNCHANGED <<i_maps, mapsLock>>

\* CreateMap lines 135-138: an instanceable base map routes to one of its instances,
\* any other base map is the result as it is
CreateMap_Route(t) ==
    /\ At(t, "route")
    /\ LET m == thr[t].ret
       IN  \E r \in (IF m # NoMap /\ objs[m].instanced
                      THEN CreateInstanceForPlayer(m, thr[t].inst)
                      ELSE {BasePtr(m)}) :
              /\ thr' = [thr EXCEPT ![t] = Done("CreateMap", @.id, @.inst, r)]
              /\ objs' = IF r.inst # 0
                         THEN [objs EXCEPT ![r.base].insts = @ \cup {r.inst}]
                         ELSE objs
    /\ UNCHANGED <<i_maps, mapsLock>>

\* MapInstanced::FindInstanceMap(instanceId) on the MapInstanced k
FindInstanceMap(k, instanceId) ==
    IF instanceId \in objs[k].insts THEN InstPtr(k, instanceId) ELSE NullPtr

\* FindMap(mapid, instanceId), lines 141-151
FindMap(mapid, instanceId) ==
    LET map == FindBaseMap(mapid)
    IN  IF map = NoMap THEN NullPtr
        ELSE IF ~objs[map].instanced
        THEN (IF instanceId = 0 THEN BasePtr(map) ELSE NullPtr)
        ELSE FindInstanceMap(map, instanceId)

\* a caller runs FindMap(mapid, instanceId), which takes no lock
CallFindMap(t, mapid, instanceId) ==
    /\ Free(t)
    /\ thr' = [thr EXCEPT ![t] = Done("FindMap", mapid, instanceId, FindMap(mapid, instanceId))]
    /\ UNCHANGED <<i_maps, objs, mapsLock>>

(***************************************************************************)
(* Update scheduler                                                        *)
(***************************************************************************)

\* i_timer's interval, CONFIG_INTERVAL_MAPUPDATE
Interval == 3

\* the largest diff one call of Update passes
MaxDiff == 2

\* the keys of i_maps
Registered == {id \in MapIds : i_maps[id] # NoMap}

\* IntervalTimer::Update(diff) on a timer holding current
TimerUpdate(current, diff) == IF current + diff < 0 THEN 0 ELSE current + diff

\* IntervalTimer::Passed()
TimerPassed(current) == current >= Interval

\* MapUpdater::wait() returns: no scheduled update is outstanding
UpdaterWaitReturns == pendingUpd = {}

SchedInit ==
    /\ timerCurrent = 0
    /\ updaterActive \in BOOLEAN
    /\ schedPc = "idle"
    /\ loopStart = {}
    /\ visited = {}
    /\ pendingUpd = {}
    /\ primSet = {}
    /\ delSet = {}
    /\ accum = 0
    /\ updFlip = FALSE

\* a slip in Update: the timer is asked whether it has passed before it takes diff
Update_Call_PassedBeforeUpdate(diff) ==
    /\ schedPc = "idle"
    /\ timerCurrent' = TimerUpdate(timerCurrent, diff)
    /\ IF ~TimerPassed(timerCurrent)
       THEN UNCHANGED <<schedPc, loopStart, visited, primSet, delSet>>
       ELSE /\ schedPc' = "primary"
            /\ loopStart' = Registered
            /\ visited' = {}
            /\ primSet' = {}
            /\ delSet' = {}
    /\ accum' = accum + diff
    /\ updFlip' = ~updFlip
    /\ UNCHANGED <<updaterActive, pendingUpd>>

\* Update lines 239-243: the timer takes diff; below the interval the call returns,
\* else the first loop over i_maps begins
Update_Call(diff) ==
    /\ schedPc = "idle"
    /\ LET current == TimerUpdate(timerCurrent, diff)
       IN  /\ timerCurrent' = current
           /\ IF ~TimerPassed(current)
              THEN UNCHANGED <<schedPc, loopStart, visited, primSet, delSet>>
              ELSE /\ schedPc' = "primary"
                   /\ loopStart' = Registered
                   /\ visited' = {}
                   /\ primSet' = {}
                   /\ delSet' = {}
    /\ accum' = accum + diff
    /\ updFlip' = ~updFlip
    /\ UNCHANGED <<updaterActive, pendingUpd>>

\* Update lines 244-250, one iteration: the map under key id is scheduled on the
\* worker pool, or updated in place.  The order of the keys is the container's; an
\* entry inserted while the loop runs may be visited or passed over.
Update_Primary(id) ==
    /\ schedPc = "primary"
    /\ id \in Registered \ visited
    /\ visited' = visited \cup {id}
    /\ IF updaterActive
       THEN /\ pendingUpd' = pendingUpd \cup {i_maps[id]}
            /\ UNCHANGED primSet
       ELSE /\ primSet' = primSet \cup {i_maps[id]}
            /\ UNCHANGED pendingUpd
    /\ UNCHANGED <<timerCurrent, updaterActive, schedPc, loopStart, delSet, accum, updFlip>>

\* Update lines 244 and 251-254: the first loop ends; without a worker pool the
\* second loop begins at once
Update_PrimaryEnd ==
    /\ schedPc = "primary"
    /\ loopStart \subseteq visited
    /\ IF updaterActive
       THEN /\ schedPc' = "wait"
            /\ UNCHANGED <<loopStart, visited>>
       ELSE /\ schedPc' = "delayed"
            /\ loopStart' = Registered
            /\ visited' = {}
    /\ UNCHANGED <<timerCurrent, updaterActive, pendingUpd, primSet, delSet, accum, updFlip>>

\* a worker of m_updater runs one scheduled Map::Update to its end
Worker_Update(k) ==
    /\ k \in pendingUpd
    /\ pendingUpd' = pendingUpd \ {k}
    /\ primSet' = primSet \cup {k}
    /\ UNCHANGED <<timerCurrent, updaterActive, schedPc, loopStart, visited, delSet,
                   accum, updFlip>>

\* a slip in Update: the second loop begins without m_updater.wait()
Update_Wait_NoBarrier ==
    /\ schedPc = "wait"
    /\ schedPc' = "delayed"
    /\ loopStart' = Registered
    /\ visited' = {}
    /\ UNCHANGED <<timerCurrent, updaterActive, pendingUpd, primSet, delSet, accum, updFlip>>

\* Update lines 251-254: m_updater.wait(), then the second loop begins
Update_Wait ==
    /\ schedPc = "wait"
    /\ UpdaterWaitReturns
    /\ schedPc' = "delayed"
    /\ loopStart' = Registered
    /\ visited' = {}
    /\ UNCHANGED <<timerCurrent, updaterActive, pendingUpd, primSet, delSet, accum, updFlip>>

\* Update lines 254-255, one iteration: DelayedUpdate of the map under key id
Update_Delayed(id) ==
    /\ schedPc = "delayed"
    /\ id \in Registered \ visited
    /\ visited' = visited \cup {id}
    /\ delSet' = delSet \cup {i_maps[id]}
    /\ UNCHANGED <<timerCurrent, updaterActive, schedPc, loopStart, pendingUpd, primSet,
                   accum, updFlip>>

\* Update lines 254 and 257: the second loop ends and the timer is set to 0
Update_DelayedEnd ==
    /\ schedPc = "delayed"
    /\ loopStart \subseteq visited
    /\ timerCurrent' = 0
    /\ schedPc' = "idle"
    /\ accum' = 0
    /\ UNCHANGED <<updaterActive, loopStart, visited, pendingUpd, primSet, delSet, updFlip>>

(***************************************************************************)
(* Admission                                                               *)
(***************************************************************************)

\* Map::EnterState
EnterStates == {"CAN_ENTER", "CANNOT_ENTER_ALREADY_IN_MAP", "CANNOT_ENTER_NO_ENTRY",
                "CANNOT_ENTER_UNINSTANCED_DUNGEON", "CANNOT_ENTER_DIFFICULTY_UNAVAILABLE",
                "CANNOT_ENTER_NOT_IN_RAID", "CANNOT_ENTER_CORPSE_IN_DIFFERENT_INSTANCE",
                "CANNOT_ENTER_INSTANCE_BIND_MISMATCH", "CANNOT_ENTER_TOO_MANY_INSTANCES",
                "CANNOT_ENTER_MAX_PLAYERS", "CANNOT_ENTER_ZONE_IN_COMBAT",
                "CANNOT_ENTER_UNSPECIFIED_REASON"}

NotEvaluated == "none"

\* the id PlayerCannotEnter is asked about that has no entry in sMapStore
AbsentId == 6

\* the instance id of the save a group's binding holds
SaveInstanceId == 1

\* sMapStore.LookupEntry(mapid) is not null
EntryExists(mapid) == mapid \in MapIds

\* Unit::IsAlive() and Unit::isDead() on m_deathState
IsAlive(deathState) == deathState = "ALIVE"

isDead(deathState) == deathState \in {"CORPSE", "DEAD"}

\* Group::isRaidGroup() and Group::isLFGGroup(); group is "none" for no group
isRaidGroup(group) == group \in {"raid", "lfgraid"}

isLFGGroup(group) == group \in {"lfg", "lfgraid"}

\* a slip in the corpse walk: the corpse's own map is compared and the parent links
\* of the instance templates are not followed
CorpseWalk_NoParent(corpseMap, mapid) ==
    IF corpseMap = mapid THEN corpseMap ELSE 0

RECURSIVE CorpseWalk(_, _)
\* the do-while of lines 193-201: corpseMap when the loop is left
CorpseWalk(corpseMap, mapid) ==
    IF corpseMap = mapid THEN corpseMap
    ELSE LET parent == IF HasInstanceTemplate(corpseMap) THEN TemplateParent(corpseMap) ELSE 0
         IN  IF parent # 0 THEN CorpseWalk(parent, mapid) ELSE parent

\* lines 184-186: a raid of the current expansion is entered in a raid group only
RaidGroupMissing(in) ==
    /\ IsRaid(in.mapid) /\ Expansion(in.mapid) >= in.configExpansion
    /\ (in.group = "none" \/ ~isRaidGroup(in.group)) /\ ~in.ignoreRaid

\* lines 188-210: the corpse of a player who is not alive is in another instance chain
CorpseElsewhere(in) ==
    /\ ~IsAlive(in.deathState)
    /\ in.hasCorpse
    /\ CorpseWalk(in.corpseMap, in.mapid) = 0

\* lines 213-220: the denial of the instance the group is bound to, CAN_ENTER without one
BoundDenial(in) ==
    IF ~in.loginCheck /\ in.group # "none"
       /\ in.bound = "save"
       /\ FindMap(in.mapid, SaveInstanceId) # NullPtr
    THEN in.boundCannotEnter
    ELSE "CAN_ENTER"

\* a slip in the cap: the exemption is given to no one, a dead player is counted too
TooManyInstances_DeadCounted(in) ==
    /\ IsDungeon(in.mapid)
    /\ (in.group = "none" \/ (in.group # "none" /\ ~isLFGGroup(in.group)))
    /\ ~in.checkInstanceCount

\* lines 222-232: the cap on instances per hour
TooManyInstances(in) ==
    /\ IsDungeon(in.mapid)
    /\ (in.group = "none" \/ (in.group # "none" /\ ~isLFGGroup(in.group)))
    /\ ~in.checkInstanceCount /\ ~isDead(in.deathState)

\* a slip in PlayerCannotEnter: the game master bypass comes after the raid group
\* test
PlayerCannotEnter_BypassAfterRaid(in) ==
    IF ~EntryExists(in.mapid) THEN "CANNOT_ENTER_NO_ENTRY"
    ELSE IF ~IsDungeon(in.mapid) THEN "CAN_ENTER"
    ELSE IF ~HasInstanceTemplate(in.mapid) THEN "CANNOT_ENTER_UNINSTANCED_DUNGEON"
    ELSE IF ~in.difficultyOffered THEN "CANNOT_ENTER_DIFFICULTY_UNAVAILABLE"
    ELSE IF ~in.satisfy THEN "CANNOT_ENTER_UNSPECIFIED_REASON"
    ELSE IF RaidGroupMissing(in) THEN "CANNOT_ENTER_NOT_IN_RAID"
    ELSE IF in.gameMaster THEN "CAN_ENTER"
    ELSE IF CorpseElsewhere(in) THEN "CANNOT_ENTER_CORPSE_IN_DIFFERENT_INSTANCE"
    ELSE IF BoundDenial(in) # "CAN_ENTER" THEN BoundDenial(in)
    ELSE IF TooManyInstances(in) THEN "CANNOT_ENTER_TOO_MANY_INSTANCES"
    ELSE "CAN_ENTER"

\* a slip in PlayerCannotEnter: the game master bypass comes after the access
\* requirement
PlayerCannotEnter_BypassAfterSatisfy(in) ==
    IF ~EntryExists(in.mapid) THEN "CANNOT_ENTER_NO_ENTRY"
    ELSE IF ~IsDungeon(in.mapid) THEN "CAN_ENTER"
    ELSE IF ~HasInstanceTemplate(in.mapid) THEN "CANNOT_ENTER_UNINSTANCED_DUNGEON"
    ELSE IF ~in.difficultyOffered THEN "CANNOT_ENTER_DIFFICULTY_UNAVAILABLE"
    ELSE IF ~in.satisfy THEN "CANNOT_ENTER_UNSPECIFIED_REASON"
    ELSE IF in.gameMaster THEN "CAN_ENTER"
    ELSE IF RaidGroupMissing(in) THEN "CANNOT_ENTER_NOT_IN_RAID"
    ELSE IF CorpseElsewhere(in) THEN "CANNOT_ENTER_CORPSE_IN_DIFFERENT_INSTANCE"
    ELSE IF BoundDenial(in) # "CAN_ENTER" THEN BoundDenial(in)
    ELSE IF TooManyInstances(in) THEN "CANNOT_ENTER_TOO_MANY_INSTANCES"
    ELSE "CAN_ENTER"

\* a slip in PlayerCannotEnter: the instance template is asked for before the
\* dungeon test
PlayerCannotEnter_TemplateBeforeDungeon(in) ==
    IF ~EntryExists(in.mapid) THEN "CANNOT_ENTER_NO_ENTRY"
    ELSE IF ~HasInstanceTemplate(in.mapid) THEN "CANNOT_ENTER_UNINSTANCED_DUNGEON"
    ELSE IF ~IsDungeon(in.mapid) THEN "CAN_ENTER"
    ELSE IF ~in.difficultyOffered THEN "CANNOT_ENTER_DIFFICULTY_UNAVAILABLE"
    ELSE IF in.gameMaster THEN "CAN_ENTER"
    ELSE IF ~in.satisfy THEN "CANNOT_ENTER_UNSPECIFIED_REASON"
    ELSE IF RaidGroupMissing(in) THEN "CANNOT_ENTER_NOT_IN_RAID"
    ELSE IF CorpseElsewhere(in) THEN "CANNOT_ENTER_CORPSE_IN_DIFFERENT_INSTANCE"
    ELSE IF BoundDenial(in) # "CAN_ENTER" THEN BoundDenial(in)
    ELSE IF TooManyInstances(in) THEN "CANNOT_ENTER_TOO_MANY_INSTANCES"
    ELSE "CAN_ENTER"

\* PlayerCannotEnter(mapid, player, loginCheck), lines 153-235
PlayerCannotEnter(in) ==
    IF ~EntryExists(in.mapid) THEN "CANNOT_ENTER_NO_ENTRY"
    ELSE IF ~IsDungeon(in.mapid) THEN "CAN_ENTER"
    ELSE IF ~HasInstanceTemplate(in.mapid) THEN "CANNOT_ENTER_UNINSTANCED_DUNGEON"
    ELSE IF ~in.difficultyOffered THEN "CANNOT_ENTER_DIFFICULTY_UNAVAILABLE"
    ELSE IF in.gameMaster THEN "CAN_ENTER"
    ELSE IF ~in.satisfy THEN "CANNOT_ENTER_UNSPECIFIED_REASON"
    ELSE IF RaidGroupMissing(in) THEN "CANNOT_ENTER_NOT_IN_RAID"
    ELSE IF CorpseElsewhere(in) THEN "CANNOT_ENTER_CORPSE_IN_DIFFERENT_INSTANCE"
    ELSE IF BoundDenial(in) # "CAN_ENTER" THEN BoundDenial(in)
    ELSE IF TooManyInstances(in) THEN "CANNOT_ENTER_TOO_MANY_INSTANCES"
    ELSE "CAN_ENTER"

\* the ids PlayerCannotEnter is asked about: a continent, a terrain child, the dungeon,
\* the raid, the dungeon without a template, an id without an entry
TargetIds == {0, 1, 3, 4, 5, AbsentId}

\* the maps a corpse lies in
CorpseMapIds == {0, 3, 4}

\* the participant's life: alive, or not alive with or without a corpse
Lives ==
    {[deathState |-> "ALIVE", hasCorpse |-> FALSE, corpseMap |-> 0]}
    \cup {[deathState |-> d, hasCorpse |-> FALSE, corpseMap |-> 0] :
            d \in {"JUST_DIED", "CORPSE"}}
    \cup {[deathState |-> d, hasCorpse |-> TRUE, corpseMap |-> c] :
            d \in {"JUST_DIED", "CORPSE"}, c \in CorpseMapIds}

\* the participant's group and its binding for the map: no binding, a binding
\* without a save, or a binding whose save names instance SaveInstanceId, which
\* answers CannotEnter with boundCannotEnter
Groupings ==
    {[group |-> "none", bound |-> "none", boundCannotEnter |-> "CAN_ENTER"]}
    \cup {[group |-> g, bound |-> b, boundCannotEnter |-> "CAN_ENTER"] :
            g \in {"party", "raid", "lfg"}, b \in {"none", "nosave"}}
    \cup {[group |-> g, bound |-> "save", boundCannotEnter |-> e] :
            g \in {"party", "raid", "lfg"},
            e \in {"CAN_ENTER", "CANNOT_ENTER_MAX_PLAYERS", "CANNOT_ENTER_ZONE_IN_COMBAT"}}

\* the inputs of one evaluation
AdmInputs ==
    {[mapid |-> m, loginCheck |-> l, difficultyOffered |-> d, gameMaster |-> gm,
      satisfy |-> sat, ignoreRaid |-> ir, configExpansion |-> ce,
      checkInstanceCount |-> cic,
      deathState |-> life.deathState, hasCorpse |-> life.hasCorpse,
      corpseMap |-> life.corpseMap,
      group |-> gr.group, bound |-> gr.bound, boundCannotEnter |-> gr.boundCannotEnter] :
        m \in TargetIds, l \in BOOLEAN, d \in BOOLEAN, gm \in BOOLEAN, sat \in BOOLEAN,
        ir \in BOOLEAN, ce \in {1, 2}, cic \in BOOLEAN, life \in Lives, gr \in Groupings}

\* the registry holding nothing but the MapInstanced of mapid with its instance
\* SaveInstanceId
RegWithInstance(mapid) ==
    /\ i_maps = [id \in MapIds |-> IF id = mapid THEN 1 ELSE NoMap]
    /\ objs = <<[id |-> mapid, instanced |-> TRUE, children |-> <<>>,
                 insts |-> {SaveInstanceId}]>>
    /\ mapsLock = NoCaller
    /\ thr = [t \in Callers |-> Idle]

NoInput == [mapid |-> 0]

AdmIdle == admIn = NoInput /\ admOut = NotEvaluated

\* an evaluation is about to run: its inputs, and for a binding with a save the
\* registry with or without the bound instance's map
AdmInit ==
    /\ admIn \in AdmInputs
    /\ admOut = NotEvaluated
    /\ \/ RegInit
       \/ /\ admIn.bound = "save"
          /\ EntryExists(admIn.mapid) /\ Instanceable(admIn.mapid)
          /\ RegWithInstance(admIn.mapid)

\* one call of PlayerCannotEnter
Evaluate ==
    /\ admOut = NotEvaluated
    /\ admIn # NoInput
    /\ admOut' = PlayerCannotEnter(admIn)
    /\ UNCHANGED admIn

(***************************************************************************)
(* Specifications                                                          *)
(***************************************************************************)

\* the registry under concurrent callers of CreateBaseMap
NextReg ==
    \/ \E t \in Callers, id \in RequestIds :
          CallCreate(t, "CreateBaseMap", id, 0) /\ UNCHANGED <<allocVars, schedVars, admVars>>
    \/ \E t \in Callers : CreateBaseMap_Find(t) /\ UNCHANGED <<allocVars, schedVars, admVars>>
    \/ \E t \in Callers : CreateBaseMap_Lock(t) /\ UNCHANGED <<allocVars, schedVars, admVars>>
    \/ \E t \in Callers : CreateBaseMap_i_New(t) /\ UNCHANGED <<allocVars, schedVars, admVars>>
    \/ \E t \in Callers : CreateBaseMap_i_Next(t) /\ UNCHANGED <<allocVars, schedVars, admVars>>
    \/ \E t \in Callers : CreateBaseMap_Return(t) /\ UNCHANGED <<allocVars, schedVars, admVars>>
    \/ \E t \in Callers : CreateBaseMap_Refind(t) /\ UNCHANGED <<allocVars, schedVars, admVars>>

\* the scheduler is not configured for a worker pool in the other specifications
SchedIdle == SchedInit /\ ~updaterActive

InitReg == AllocInit /\ RegInit /\ SchedIdle /\ AdmIdle

SpecReg == InitReg /\ [][NextReg]_vars

\* the caller of the routing and the scheduling specifications
Router == "t1"

\* the instance router: one caller of CreateBaseMap, CreateMap and FindMap
NextRoute ==
    \/ \E id \in RequestIds :
          CallCreate(Router, "CreateBaseMap", id, 0) /\ UNCHANGED <<allocVars, schedVars, admVars>>
    \/ \E id \in RequestIds, n \in {0} \cup InstanceIds :
          CallCreate(Router, "CreateMap", id, n) /\ UNCHANGED <<allocVars, schedVars, admVars>>
    \/ CreateBaseMap_Find(Router) /\ UNCHANGED <<allocVars, schedVars, admVars>>
    \/ CreateBaseMap_Lock(Router) /\ UNCHANGED <<allocVars, schedVars, admVars>>
    \/ CreateBaseMap_i_New(Router) /\ UNCHANGED <<allocVars, schedVars, admVars>>
    \/ CreateBaseMap_i_Next(Router) /\ UNCHANGED <<allocVars, schedVars, admVars>>
    \/ CreateBaseMap_Return(Router) /\ UNCHANGED <<allocVars, schedVars, admVars>>
    \/ CreateBaseMap_Refind(Router) /\ UNCHANGED <<allocVars, schedVars, admVars>>
    \/ CreateMap_Route(Router) /\ UNCHANGED <<allocVars, schedVars, admVars>>
    \/ \E id \in RequestIds, n \in {0} \cup InstanceIds :
          CallFindMap(Router, id, n) /\ UNCHANGED <<allocVars, schedVars, admVars>>

SpecRoute == InitReg /\ [][NextRoute]_vars

\* the scheduler, with one caller of CreateBaseMap beside it
NextSched ==
    \/ \E diff \in 0 .. MaxDiff : Update_Call(diff) /\ UNCHANGED <<allocVars, regVars, admVars>>
    \/ \E id \in MapIds : Update_Primary(id) /\ UNCHANGED <<allocVars, regVars, admVars>>
    \/ Update_PrimaryEnd /\ UNCHANGED <<allocVars, regVars, admVars>>
    \/ \E k \in 1 .. Len(objs) : Worker_Update(k) /\ UNCHANGED <<allocVars, regVars, admVars>>
    \/ Update_Wait /\ UNCHANGED <<allocVars, regVars, admVars>>
    \/ \E id \in MapIds : Update_Delayed(id) /\ UNCHANGED <<allocVars, regVars, admVars>>
    \/ Update_DelayedEnd /\ UNCHANGED <<allocVars, regVars, admVars>>
    \/ \E id \in RequestIds :
          CallCreate(Router, "CreateBaseMap", id, 0) /\ UNCHANGED <<allocVars, schedVars, admVars>>
    \/ CreateBaseMap_Find(Router) /\ UNCHANGED <<allocVars, schedVars, admVars>>
    \/ CreateBaseMap_Lock(Router) /\ UNCHANGED <<allocVars, schedVars, admVars>>
    \/ CreateBaseMap_i_New(Router) /\ UNCHANGED <<allocVars, schedVars, admVars>>
    \/ CreateBaseMap_i_Next(Router) /\ UNCHANGED <<allocVars, schedVars, admVars>>
    \/ CreateBaseMap_Return(Router) /\ UNCHANGED <<allocVars, schedVars, admVars>>
    \/ CreateBaseMap_Refind(Router) /\ UNCHANGED <<allocVars, schedVars, admVars>>

InitSched == AllocInit /\ RegInit /\ SchedInit /\ AdmIdle

SpecSched == InitSched /\ [][NextSched]_vars

NextAlloc ==
    \/ \E maxId \in 0 .. MaxHighestUsed :
          InitInstanceIds(TRUE, maxId) /\ UNCHANGED <<regVars, schedVars, admVars>>
    \/ InitInstanceIds(FALSE, 0) /\ UNCHANGED <<regVars, schedVars, admVars>>
    \/ \E id \in 0 .. (MaxTableSize - 1) :
          RegisterInstanceId(id) /\ UNCHANGED <<regVars, schedVars, admVars>>
    \/ GenerateInstanceId /\ UNCHANGED <<regVars, schedVars, admVars>>
    \/ \E id \in 0 .. (MaxTableSize - 1) :
          FreeInstanceId(id) /\ UNCHANGED <<regVars, schedVars, admVars>>

InitAlloc == AllocInit /\ RegInit /\ SchedIdle /\ AdmIdle

SpecAlloc == InitAlloc /\ [][NextAlloc]_vars

\* the admission procedure on every input
NextAdm == Evaluate /\ UNCHANGED <<allocVars, regVars, schedVars>>

InitAdm == AllocInit /\ SchedIdle /\ AdmInit

SpecAdm == InitAdm /\ [][NextAdm]_vars

(***************************************************************************)
(* Properties                                                              *)
(***************************************************************************)

\* the objects constructed for map id
ObjectsOf(id) == {k \in 1 .. Len(objs) : objs[k].id = id}

\* caller t has returned from a call of op
Returned(t, op) == thr[t].pc = "done" /\ thr[t].op = op

\* C1: CreateBaseMap is idempotent under concurrent callers: at most one object is
\* ever constructed for a map id (so its registry entry is written once), and
\* every caller that has returned from CreateBaseMap(id) holds the registered object.
C1_OneObjectPerId ==
    \A id \in MapIds :
        /\ Cardinality(ObjectsOf(id)) <= 1
        /\ \A t \in Callers :
              (Returned(t, "CreateBaseMap") /\ thr[t].id = id)
                  => thr[t].res = BasePtr(i_maps[id])

\* C2: GenerateInstanceId never returns 0, whatever indexes of the table
\* RegisterInstanceId and FreeInstanceId were given.
C2_ZeroNeverAllocated ==
    allocLast.op = "Allocate" => allocLast.ret # 0

\* C3: as long as FreeInstanceId has not been called, the ids GenerateInstanceId
\* has returned since InitInstanceIds are pairwise distinct and none is 0.
C3_AllocatedDistinctNonzero ==
    ~freedEver =>
        \A i \in 1 .. Len(allocRun) :
            /\ allocRun[i] # 0
            /\ \A j \in 1 .. Len(allocRun) : i # j => allocRun[i] # allocRun[j]

\* three ids were handed out in a row after RegisterInstanceId had moved the cursor
C3_Witness ==
    /\ ~freedEver
    /\ Len(allocRun) >= 3
    /\ allocRun[1] > 1

\* no index below x is marked free
NoFreeBelow(x) == \A i \in DOMAIN freeInstanceIds : i < x => ~freeInstanceIds[i]

\* C4: when FreeInstanceId(x) was the last call, x >= 1 and no id below x is free,
\* the GenerateInstanceId that follows returns x.
C4_ReleaseThenAllocate ==
    [][(/\ allocLast.op = "Release"
        /\ allocLast.id >= 1
        /\ NoFreeBelow(allocLast.id)
        /\ allocLast'.op \in {"Allocate", "AllocateAborted"})
       => (allocLast'.op = "Allocate" /\ allocLast'.ret = allocLast.id)]_vars

\* C5: with a worker pool, the second loop of Update (DelayedUpdate) runs only when
\* no scheduled primary update is outstanding.
C5_BarrierBeforeDelayed ==
    schedPc = "delayed" => pendingUpd = {}

\* a pass with a worker pool: two primary updates have returned and the delayed
\* loop has begun
C5_Witness ==
    /\ updaterActive
    /\ schedPc = "delayed"
    /\ Cardinality(primSet) >= 2
    /\ delSet # {}

\* C6: a call of Update begins a pass exactly when the deltas summed since the last
\* pass, this call's included, have reached the interval; a call below it updates
\* no map and leaves the timer holding the sum; the end of a pass sets the timer to 0.
C6_PassIffThreshold ==
    [][/\ (updFlip' # updFlip) =>
             /\ (schedPc' = "primary") <=> (accum' >= Interval)
             /\ (accum' < Interval) =>
                   /\ schedPc' = "idle"
                   /\ timerCurrent' = accum'
                   /\ primSet' = primSet /\ delSet' = delSet /\ pendingUpd' = pendingUpd
       /\ (schedPc = "delayed" /\ schedPc' = "idle") => timerCurrent' = 0
      ]_vars

\* a pass over a registered map has begun on deltas summing to the interval exactly
\* (no single delta reaches it)
C6_Witness ==
    /\ schedPc = "primary"
    /\ accum = Interval
    /\ MaxDiff < Interval
    /\ Registered # {}

\* C7: when a pass has ended, the objects given DelayedUpdate in it are the objects
\* given Update in it, whatever CreateBaseMap did meanwhile.
C7_SamePrimaryAndDelayedSet ==
    schedPc = "idle" => primSet = delSet

\* C8, as claimed: CreateMap on a map that is not instanceable returns the base map
\* only for login instance id 0, and null for any other.
C8_NullOnInstanceId ==
    \A t \in Callers :
        (Returned(t, "CreateMap") /\ ~Instanceable(thr[t].id)) =>
            thr[t].res = (IF thr[t].inst = 0 THEN BasePtr(i_maps[thr[t].id]) ELSE NullPtr)

\* C8, amended: CreateMap on a map that is not instanceable returns the registered
\* base map whatever login instance id it is given; it is FindMap that, on a
\* registered map that is not instanceable, returns the base map for instance id 0
\* and null for any other.
C8_BaseMapWhateverInstanceId ==
    \A t \in Callers :
        /\ (Returned(t, "CreateMap") /\ ~Instanceable(thr[t].id)) =>
              (thr[t].res = BasePtr(i_maps[thr[t].id]) /\ thr[t].res # NullPtr)
        /\ (Returned(t, "FindMap") /\ ~Instanceable(thr[t].id)
               /\ i_maps[thr[t].id] # NoMap) =>
              thr[t].res = (IF thr[t].inst = 0 THEN BasePtr(i_maps[thr[t].id])
                            ELSE NullPtr)

\* CreateMap was given an instance id on a map that is not instanceable, and
\* returned its base map
C8_Witness ==
    \E t \in Callers :
        /\ Returned(t, "CreateMap")
        /\ ~Instanceable(thr[t].id)
        /\ thr[t].inst # 0
        /\ thr[t].res = BasePtr(i_maps[thr[t].id])
        /\ i_maps[thr[t].id] # NoMap

RECURSIVE ParentChain(_)
\* the maps on the instance template parent chain of map c, c included
ParentChain(c) ==
    {c} \cup (IF HasInstanceTemplate(c) /\ TemplateParent(c) # c
              THEN ParentChain(TemplateParent(c))
              ELSE {})

\* the instance a binding's save names is loaded in the registry
BoundInstanceLoaded(in) ==
    \E k \in 1 .. Len(objs) :
        /\ i_maps[in.mapid] = k
        /\ SaveInstanceId \in objs[k].insts

Continue == "continue"

\* the rules of the admission procedure, in their order: each gives a decision or
\* Continue
Rule(n, in) ==
    CASE n = 1 -> IF in.mapid \in MapIds THEN Continue ELSE "CANNOT_ENTER_NO_ENTRY"
      [] n = 2 -> IF IsDungeon(in.mapid) THEN Continue ELSE "CAN_ENTER"
      [] n = 3 -> IF HasInstanceTemplate(in.mapid) THEN Continue
                  ELSE "CANNOT_ENTER_UNINSTANCED_DUNGEON"
      [] n = 4 -> IF in.difficultyOffered THEN Continue
                  ELSE "CANNOT_ENTER_DIFFICULTY_UNAVAILABLE"
      [] n = 5 -> IF in.gameMaster THEN "CAN_ENTER" ELSE Continue
      [] n = 6 -> IF in.satisfy THEN Continue ELSE "CANNOT_ENTER_UNSPECIFIED_REASON"
      [] n = 7 -> IF /\ IsRaid(in.mapid)
                     /\ Expansion(in.mapid) >= in.configExpansion
                     /\ in.group \notin {"raid", "lfgraid"}
                     /\ ~in.ignoreRaid
                  THEN "CANNOT_ENTER_NOT_IN_RAID" ELSE Continue
      [] n = 8 -> IF /\ in.deathState # "ALIVE"
                     /\ in.hasCorpse
                     /\ in.mapid \notin ParentChain(in.corpseMap)
                  THEN "CANNOT_ENTER_CORPSE_IN_DIFFERENT_INSTANCE" ELSE Continue
      [] n = 9 -> IF /\ ~in.loginCheck
                     /\ in.group # "none"
                     /\ in.bound = "save"
                     /\ BoundInstanceLoaded(in)
                     /\ in.boundCannotEnter # "CAN_ENTER"
                  THEN in.boundCannotEnter ELSE Continue
      [] n = 10 -> IF /\ IsDungeon(in.mapid)
                      /\ in.group \notin {"lfg", "lfgraid"}
                      /\ ~in.checkInstanceCount
                      /\ in.deathState \notin {"CORPSE", "DEAD"}
                   THEN "CANNOT_ENTER_TOO_MANY_INSTANCES" ELSE Continue
      [] OTHER -> "CAN_ENTER"

RECURSIVE RuleChainFrom(_, _)
\* the decision of the first rule from n on that does not continue
RuleChainFrom(n, in) ==
    IF n > 10 \/ Rule(n, in) # Continue THEN Rule(n, in)
    ELSE RuleChainFrom(n + 1, in)

\* C9: PlayerCannotEnter returns one Map::EnterState, the decision of the first of
\* the rules 1 to 11 that decides.
C9_MatchesRuleChain ==
    admOut # NotEvaluated =>
        /\ admOut \in EnterStates
        /\ admOut = RuleChainFrom(1, admIn)

\* an evaluation that went as far as rule 9 and returned the bound instance's denial
C9_Witness ==
    /\ admOut = "CANNOT_ENTER_ZONE_IN_COMBAT"
    /\ admIn.deathState # "ALIVE"
    /\ admIn.hasCorpse

\* C10: for a map that has an entry and is not a dungeon PlayerCannotEnter returns
\* CAN_ENTER, whatever the player, the group and loginCheck are.
C10_NonDungeonAlwaysEnters ==
    (admOut # NotEvaluated /\ EntryExists(admIn.mapid) /\ ~IsDungeon(admIn.mapid))
        => admOut = "CAN_ENTER"

\* a dead player without a corpse, failing the access requirement, over the instance
\* cap and in a group whose bound instance denies entry, asked about a continent
C10_Witness ==
    /\ admOut = "CAN_ENTER"
    /\ ~IsDungeon(admIn.mapid)
    /\ admIn.deathState = "CORPSE" /\ ~admIn.hasCorpse
    /\ ~admIn.satisfy /\ ~admIn.checkInstanceCount /\ ~admIn.gameMaster
    /\ admIn.group = "party" /\ admIn.bound = "save"
    /\ admIn.boundCannotEnter = "CANNOT_ENTER_MAX_PLAYERS"
    /\ ~admIn.loginCheck

\* the result PlayerCannotEnter has returned for the inputs admIn
Evaluated == admOut # NotEvaluated

\* C11: for a dungeon with an instance template and an offered difficulty
\* PlayerCannotEnter returns CAN_ENTER for every game master, whatever the access
\* requirement, the group, the life and corpse, the binding and the instance count
\* are; a game master is still refused by the three rules before the bypass.
C11_GameMasterBypass ==
    (Evaluated /\ admIn.gameMaster) =>
        /\ ~EntryExists(admIn.mapid) => admOut = "CANNOT_ENTER_NO_ENTRY"
        /\ (EntryExists(admIn.mapid) /\ IsDungeon(admIn.mapid)) =>
              /\ ~HasInstanceTemplate(admIn.mapid)
                    => admOut = "CANNOT_ENTER_UNINSTANCED_DUNGEON"
              /\ (HasInstanceTemplate(admIn.mapid) /\ ~admIn.difficultyOffered)
                    => admOut = "CANNOT_ENTER_DIFFICULTY_UNAVAILABLE"
              /\ (HasInstanceTemplate(admIn.mapid) /\ admIn.difficultyOffered)
                    => admOut = "CAN_ENTER"

\* a game master enters the raid: not alive, the corpse in another map, no group, the
\* access requirement failed and the instance cap exceeded
C11_Witness ==
    /\ admOut = "CAN_ENTER"
    /\ admIn.gameMaster
    /\ IsDungeon(admIn.mapid) /\ IsRaid(admIn.mapid)
    /\ Expansion(admIn.mapid) >= admIn.configExpansion /\ ~admIn.ignoreRaid
    /\ admIn.group = "none"
    /\ ~admIn.satisfy /\ ~admIn.checkInstanceCount
    /\ admIn.deathState = "JUST_DIED" /\ admIn.hasCorpse /\ admIn.corpseMap = 0

\* the player of admIn is dead and has no corpse, and the map asked about is a dungeon
DeadWithoutCorpse ==
    /\ EntryExists(admIn.mapid) /\ IsDungeon(admIn.mapid)
    /\ isDead(admIn.deathState) /\ ~admIn.hasCorpse

\* C12 as stated: for a dungeon PlayerCannotEnter refuses a dead player who has no
\* corpse, with a reason other than too many instances and not in raid.
C12_DeadWithoutCorpseDenied ==
    (Evaluated /\ DeadWithoutCorpse) =>
        admOut \notin {"CAN_ENTER", "CANNOT_ENTER_TOO_MANY_INSTANCES",
                       "CANNOT_ENTER_NOT_IN_RAID"}

\* C12 as the code has it: for a dungeon a dead player who has no corpse is refused
\* neither for the corpse nor for the instance cap; a player who is no game master
\* and passes the rules before the corpse rule gets the bound instance's denial if
\* there is one and enters otherwise, and a missing raid group is still refused as
\* not in raid.
C12_DeadWithoutCorpsePasses ==
    (Evaluated /\ DeadWithoutCorpse) =>
        /\ admOut \notin {"CANNOT_ENTER_CORPSE_IN_DIFFERENT_INSTANCE",
                          "CANNOT_ENTER_TOO_MANY_INSTANCES"}
        /\ (/\ HasInstanceTemplate(admIn.mapid) /\ admIn.difficultyOffered
            /\ ~admIn.gameMaster /\ admIn.satisfy) =>
              admOut = IF RaidGroupMissing(admIn) THEN "CANNOT_ENTER_NOT_IN_RAID"
                       ELSE BoundDenial(admIn)

\* a dead player without a corpse, over the instance cap, enters the dungeon
C12_Witness ==
    /\ DeadWithoutCorpse
    /\ admOut = "CAN_ENTER"
    /\ ~admIn.gameMaster
    /\ ~admIn.checkInstanceCount
    /\ admIn.group = "none"

\* the player of admIn is no game master, is not alive, has a corpse and passes the
\* rules before the corpse rule
AtCorpseRule ==
    /\ EntryExists(admIn.mapid) /\ IsDungeon(admIn.mapid)
    /\ HasInstanceTemplate(admIn.mapid) /\ admIn.difficultyOffered
    /\ ~admIn.gameMaster /\ admIn.satisfy
    /\ Rule(7, admIn) = Continue
    /\ admIn.deathState # "ALIVE" /\ admIn.hasCorpse

\* C13: for such a player PlayerCannotEnter returns corpse in different instance
\* exactly when the map asked about is not on the instance template parent chain of
\* the corpse's map (the corpse's map included); when it is on the chain the result
\* is that of the binding and instance cap rules.
C13_CorpseChain ==
    (Evaluated /\ AtCorpseRule) =>
        /\ (admOut = "CANNOT_ENTER_CORPSE_IN_DIFFERENT_INSTANCE")
              <=> (admIn.mapid \notin ParentChain(admIn.corpseMap))
        /\ (admIn.mapid \in ParentChain(admIn.corpseMap))
              => admOut = RuleChainFrom(9, admIn)

\* the corpse lies in the raid, whose instance template names the dungeon as its
\* parent, and the player is let into the dungeon
C13_Witness ==
    /\ AtCorpseRule
    /\ admOut = "CAN_ENTER"
    /\ admIn.corpseMap # admIn.mapid
    /\ admIn.mapid \in ParentChain(admIn.corpseMap)

\* the number of times object c is attached to object k as a child terrain map
TimesAttached(k, c) == Cardinality({i \in 1 .. Len(objs[k].children) : objs[k].children[i] = c})

\* C14: with one caller, whenever no creation is under way, every map D with a parent
\* P (by ParentMapID or CosmeticParentMapID) is registered exactly when P is, and then
\* one object exists for D, it is attached once to the object of P and to no other
\* object; CreateBaseMap(D) has returned that object. So the calls CreateBaseMap(P)
\* then CreateBaseMap(D), and CreateBaseMap(D) alone, end in the same registry.
C14_ChildAttachedOnce ==
    (mapsLock = NoCaller) =>
        \A D \in {c \in MapIds : HasParent(c)} :
            LET P == ParentOf(D)
            IN  /\ (i_maps[D] # NoMap) <=> (i_maps[P] # NoMap)
                /\ (i_maps[D] # NoMap) =>
                      /\ Cardinality(ObjectsOf(D)) = 1
                      /\ \A k \in 1 .. Len(objs) :
                            TimesAttached(k, i_maps[D]) = (IF k = i_maps[P] THEN 1 ELSE 0)
                /\ (Returned(Router, "CreateBaseMap") /\ thr[Router].id = D) =>
                      (i_maps[D] # NoMap /\ thr[Router].res = BasePtr(i_maps[D]))

\* CreateBaseMap of map 2, the child of the child 1 of root 0, has returned the
\* object attached to the object of map 1
C14_Witness ==
    /\ Returned(Router, "CreateBaseMap")
    /\ thr[Router].id = 2
    /\ i_maps[2] # NoMap /\ i_maps[1] # NoMap /\ i_maps[0] # NoMap
    /\ thr[Router].res = BasePtr(i_maps[2])
    /\ objs[i_maps[1]].children = <<i_maps[2]>>
    /\ objs[i_maps[0]].children = <<i_maps[1]>>

\* C15: the id GenerateInstanceId returns was marked free when the call began,
\* whatever ids RegisterInstanceId was given and in whatever order.
C15_AllocatedWasFree ==
    allocLast.op = "Allocate" => ~allocHist.onUsed

\* C16: RegisterInstanceId(id) marks id used and adds one to the cursor when the
\* cursor is id, and leaves the cursor alone otherwise; a GenerateInstanceId that
\* begins with the cursor on a slot marked used leaves it on a slot marked free.
C16_ReserveThenAllocate ==
    [][/\ (allocLast'.op = "Reserve") =>
             /\ freeInstanceIds' = [freeInstanceIds EXCEPT ![allocLast'.id] = FALSE]
             /\ nextInstanceId' = IF nextInstanceId = allocLast'.id
                                  THEN nextInstanceId + 1
                                  ELSE nextInstanceId
       /\ (allocLast'.op = "Allocate" /\ allocHist'.onUsed) =>
             /\ nextInstanceId' \in DOMAIN freeInstanceIds'
             /\ freeInstanceIds'[nextInstanceId']]_vars

\* RegisterInstanceId calls left the cursor on a slot marked used, and the
\* GenerateInstanceId after them has moved it to a free one
C16_Witness ==
    /\ allocLast.op = "Allocate"
    /\ allocHist.onUsed
    /\ ~freedEver
    /\ Len(allocRun) = 1
    /\ nextInstanceId \in DOMAIN freeInstanceIds
    /\ freeInstanceIds[nextInstanceId]

\* the free indexes of bits above index r
FreeAbove(bits, r) == {i \in DOMAIN bits : i > r /\ bits[i]}

\* C17: no call makes the table smaller; RegisterInstanceId and FreeInstanceId leave
\* its size alone; GenerateInstanceId, returning r, adds one free slot and sets the
\* cursor to it exactly when no index above r is free, and otherwise leaves the size
\* alone and sets the cursor to the lowest free index above r.
C17_GrowsByOneWhenExhausted ==
    [][/\ Size(freeInstanceIds') >= Size(freeInstanceIds)
       /\ (allocLast'.op \in {"Reserve", "Release"}) =>
             Size(freeInstanceIds') = Size(freeInstanceIds)
       /\ (allocLast'.op = "Allocate") =>
             LET r == allocLast'.ret
                 above == FreeAbove(freeInstanceIds, r)
                 n == Size(freeInstanceIds)
             IN  IF above = {}
                 THEN /\ Size(freeInstanceIds') = n + 1
                      /\ freeInstanceIds'[n]
                      /\ nextInstanceId' = n
                 ELSE /\ Size(freeInstanceIds') = n
                      /\ nextInstanceId' \in above
                      /\ \A i \in above : nextInstanceId' <= i]_vars

\* a GenerateInstanceId has grown the table past the size InitInstanceIds gave it and
\* left the cursor on the new last slot
C17_Witness ==
    /\ allocLast.op = "Allocate"
    /\ Size(freeInstanceIds) > MaxHighestUsed + 2
    /\ nextInstanceId = Size(freeInstanceIds) - 1
    /\ freeInstanceIds[nextInstanceId]

\* C18: no index below the cursor is marked free, in every state; and a
\* GenerateInstanceId grows the table only when no index of it was free but the one
\* it returns.
C18_NoFreeBelowCursor ==
    /\ [](NoFreeBelow(nextInstanceId))
    /\ [][(allocLast'.op = "Allocate" /\ Size(freeInstanceIds') > Size(freeInstanceIds))
             => \A i \in DOMAIN freeInstanceIds :
                    freeInstanceIds[i] => i = allocLast'.ret]_vars

\* FreeInstanceId has put the cursor on the freed id, below an id that is in use,
\* in a table that has grown
C18_Witness ==
    /\ allocLast.op = "Release"
    /\ allocLast.id >= 1
    /\ nextInstanceId = allocLast.id
    /\ freeInstanceIds[allocLast.id]
    /\ Size(freeInstanceIds) > MaxHighestUsed + 2
    /\ \E i \in DOMAIN freeInstanceIds : i > allocLast.id /\ ~freeInstanceIds[i]

\* C19: when every RegisterInstanceId came before the first GenerateInstanceId and
\* FreeInstanceId and named an id from 1 to the MAX(id) that InitInstanceIds read,
\* the assertion of GenerateInstanceId does not fail: the cursor is an index of the
\* table whenever GenerateInstanceId may be called.
C19_CursorInTable ==
    allocHist.replay =>
        /\ allocState # "asserted"
        /\ (allocState = "ready") => nextInstanceId < Size(freeInstanceIds)

\* every id up to MAX(id) was registered, in range and before any other call, and
\* the first GenerateInstanceId returned the extra slot
C19_Witness ==
    /\ allocHist.replay
    /\ ~freedEver
    /\ Len(allocRun) = 1
    /\ allocRun[1] >= 2
    /\ allocRun[1] = Size(freeInstanceIds) - 2
    /\ ~allocHist.onUsed

\* C20: the lookup of the child after the parent's CreateBaseMap (line 87) finds the
\* child: ASSERT_NOTNULL does not fail, whatever another caller is doing inside
\* CreateBaseMap_i.
C20_ChildLookupFound ==
    \A t \in Callers : thr[t].pc # "asserted"

====
